---- MODULE Spec2Model ----
(***************************************************************************)
(* Verification model of the U1tra-Labs sdks crates:                       *)
(*   - solend-sdk  transaction.rs          get_size_of_transaction          *)
(*   - solend-sdk  state/lending_market.rs, state/lending_market_metadata.rs*)
(*   - kamino-sdk  idl_types/accounts/lending_market.rs                     *)
(* Every entry point is a pure function of its arguments; a specification  *)
(* draws the arguments in its initial states and one action applies the    *)
(* function, leaving its locals and its outcome in the state.              *)
(***************************************************************************)
EXTENDS Integers, Sequences, FiniteSets, TLC

VARIABLES
    pc,                              \* "start" before the call, "done" after it
    result,                          \* outcome of the call: Ok / Err / Panic
    \* ---- get_size_of_transaction: arguments and locals
    instructions,                    \* Vec<Instruction>
    versioned_transaction,           \* bool
    address_lookup_table_addresses,  \* Option<Vec<Pubkey>>
    programs,                        \* local Vec<String>
    signers,                         \* local Vec<String>
    accounts,                        \* local Vec<String> at the return
    removed_by_lookup,               \* accounts dropped by the filter of line 130
    number_of_address_lookups,       \* local u16
    instruction_sizes,               \* local u16
    \* ---- account decoders: arguments and what the call left behind
    entry,                           \* the entry point that is called
    data,                            \* the raw account bytes (&[u8])
    data_borrowed_mut,               \* AccountInfo.data is mutably borrowed elsewhere
    strategy,                        \* the strategy that produced the returned record
    diagnostics,                     \* eprintln! lines written before the return
    decoded_from,                    \* the bytes the returned record was read from
    placeholders,                    \* fields of the returned record not read from bytes
    attempted,                       \* the decode strategies run, in order
    \* ---- kamino LendingMarket::fetch: argument and the account the RPC returns
    program_id,                      \* Option<&Pubkey>
    get_account_ok,                  \* c.get_account(address) returned Ok
    account_owner,                   \* info.owner
    \* ---- get_size_of_compressed_u16: argument and returned width
    u16_n,                           \* n: &u16
    compressed_size,                 \* the u8 returned
    \* ---- kamino obligation addresses: arguments and locals
    obligation_tag,                  \* obligation_tag: u8
    mint_address_1,                  \* Pubkey
    mint_address_2,                  \* Pubkey
    obligation,                      \* self: ObligationType
    market,                          \* Pubkey
    user,                            \* Pubkey
    args,                            \* InitObligationArgsModel
    derive_program_id,               \* program_id: &Pubkey of the derivation
    seed,                            \* local seed, as given to find_program_address
    bump                             \* second component of what find_program_address returned

sizeVars == <<instructions, versioned_transaction, address_lookup_table_addresses,
              programs, signers, accounts, removed_by_lookup,
              number_of_address_lookups, instruction_sizes>>

decodeVars == <<entry, data, data_borrowed_mut, strategy, diagnostics, decoded_from,
                placeholders, attempted>>

fetchVars == <<program_id, get_account_ok, account_owner>>

compressVars == <<u16_n, compressed_size>>

pdaVars == <<obligation_tag, mint_address_1, mint_address_2, obligation, market, user,
             args, derive_program_id, seed, bump>>

vars == <<pc, result, sizeVars, decodeVars, fetchVars, compressVars, pdaVars>>

(* No obligation call is made: its arguments and locals are at rest.       *)
NoObligation == [variant |-> "none"]

NoArgs == [tag |-> 0, id |-> 0, seed1 |-> 0, seed2 |-> 0]

PdaAtRest ==
    /\ obligation_tag = 0
    /\ mint_address_1 = 0
    /\ mint_address_2 = 0
    /\ obligation = NoObligation
    /\ market = 0
    /\ user = 0
    /\ args = NoArgs
    /\ derive_program_id = 0
    /\ seed = <<>>
    /\ bump = 0

(* kamino-sdk lib.rs, lines 9-10.                                          *)
PROGRAM_ID == "KLend2g3cP87fffoy8q1mQqGKjrxjC8boSyAYavgmjD"

-----------------------------------------------------------------------------
(* Outcomes.  A Rust Result is Ok(val) or Err(err); a panic (an arithmetic  *)
(* overflow in a build with overflow checks, an out-of-range slice) is the  *)
(* third outcome a caller can observe.                                      *)

Ok(v) == [tag |-> "Ok", val |-> v, err |-> "none"]

Err(e) == [tag |-> "Err", val |-> 0, err |-> e]

Panic == [tag |-> "Panic", val |-> 0, err |-> "none"]

NoResult == [tag |-> "none", val |-> 0, err |-> "none"]

Range(s) == {s[i] : i \in 1..Len(s)}

RECURSIVE SumSeq(_)
SumSeq(s) == IF s = <<>> THEN 0 ELSE Head(s) + SumSeq(Tail(s))

-----------------------------------------------------------------------------
(* u16                                                                     *)

U16_MAX == 65535

U16_MOD == 65536

(* The two builds of unchecked u16 arithmetic on an exact value v >= 0 that *)
(* is a sum of non-negative terms: with overflow checks the first partial   *)
(* sum above U16_MAX panics (and one exists iff v > U16_MAX); without them  *)
(* every operation wraps, which leaves v modulo 2^16.                       *)
U16Arith(v, overflow_checks) ==
    IF v <= U16_MAX THEN Ok(v)
    ELSE IF overflow_checks THEN Panic
    ELSE Ok(v % U16_MOD)

(* usize -> u16 by try_into().map_err(|_| ConversionWouldOverflow)          *)
TryIntoU16(n) ==
    IF n <= U16_MAX THEN Ok(n) ELSE Err("ConversionWouldOverflow")

boolean_to_int(b) == IF b THEN 1 ELSE 0

(* The two thresholds compared with > instead of >=.                       *)
get_size_of_compressed_u16_StrictlyAbove(n) ==
    1 + boolean_to_int(n > 128) + boolean_to_int(n > 16384)

get_size_of_compressed_u16(n) ==
    1 + boolean_to_int(n >= 128) + boolean_to_int(n >= 16384)

-----------------------------------------------------------------------------
(* Instructions.  Only the length of the data payload is read, so an       *)
(* instruction carries data_len for ix.data.len().                         *)

MaxIx == 2

AccountMeta(k, s) == [pubkey |-> k, is_signer |-> s]

Instruction(p, a, d) == [program_id |-> p, accounts |-> a, data_len |-> d]

ProgramIds == {3, 4}

AccountLists ==
    { <<>>,
      <<AccountMeta(1, TRUE)>>,
      <<AccountMeta(2, FALSE), AccountMeta(2, FALSE)>>,
      <<AccountMeta(1, TRUE), AccountMeta(3, FALSE)>> }

DataLens == {0, 65535, 65536}

InstructionSet ==
    {Instruction(p, a, d) : p \in ProgramIds, a \in AccountLists, d \in DataLens}

InstructionLists ==
    UNION {[1..n -> InstructionSet] : n \in 0..MaxIx}

None == [some |-> FALSE, value |-> <<>>]

Some(a) == [some |-> TRUE, value |-> a]

LookupTables == {None, Some(<<>>), Some(<<2>>), Some(<<1, 2, 3>>)}

-----------------------------------------------------------------------------
(* get_size_of_transaction, lines 77-90: the three collections.            *)

RECURSIVE SignersOf(_)
SignersOf(metas) ==
    IF metas = <<>> THEN <<>>
    ELSE (IF Head(metas).is_signer THEN <<Head(metas).pubkey>> ELSE <<>>)
         \o SignersOf(Tail(metas))

RECURSIVE KeysOf(_)
KeysOf(metas) ==
    IF metas = <<>> THEN <<>> ELSE <<Head(metas).pubkey>> \o KeysOf(Tail(metas))

RECURSIVE CollectPrograms(_)
CollectPrograms(ixs) ==
    IF ixs = <<>> THEN <<>>
    ELSE <<Head(ixs).program_id>> \o CollectPrograms(Tail(ixs))

RECURSIVE CollectSigners(_)
CollectSigners(ixs) ==
    IF ixs = <<>> THEN <<>>
    ELSE SignersOf(Head(ixs).accounts) \o CollectSigners(Tail(ixs))

(* The accounts of the instructions without their program ids.            *)
RECURSIVE CollectAccounts_WithoutPrograms(_)
CollectAccounts_WithoutPrograms(ixs) ==
    IF ixs = <<>> THEN <<>>
    ELSE KeysOf(Head(ixs).accounts) \o CollectAccounts_WithoutPrograms(Tail(ixs))

RECURSIVE CollectAccounts(_)
CollectAccounts(ixs) ==
    IF ixs = <<>> THEN <<>>
    ELSE <<Head(ixs).program_id>> \o KeysOf(Head(ixs).accounts)
         \o CollectAccounts(Tail(ixs))

(* Lines 95-107: the closure of ix_map, run once per item the iterator     *)
(* yields.                                                                 *)
IxExactSize(ix) ==
    Len(ix.accounts) + get_size_of_compressed_u16(Len(ix.accounts))
    + get_size_of_compressed_u16(ix.data_len) + ix.data_len + 1

IxClosure(ix, overflow_checks) ==
    IF TryIntoU16(ix.data_len).tag = "Err" THEN Err("ConversionWouldOverflow")
    ELSE IF TryIntoU16(Len(ix.accounts)).tag = "Err" THEN Err("ConversionWouldOverflow")
    ELSE U16Arith(IxExactSize(ix), overflow_checks)

(* Line 110: ix_map.any(|v| v.is_err()) pulls items from the lazy iterator *)
(* until the closure returns an Err, and leaves the iterator where it      *)
(* stopped: pos items consumed.                                            *)
RECURSIVE AnyIsErr(_, _, _)
AnyIsErr(ixs, pos, overflow_checks) ==
    IF pos >= Len(ixs) THEN [found |-> FALSE, panic |-> FALSE, pos |-> pos]
    ELSE LET v == IxClosure(ixs[pos + 1], overflow_checks)
         IN  IF v.tag = "Panic" THEN [found |-> FALSE, panic |-> TRUE, pos |-> pos + 1]
             ELSE IF v.tag = "Err" THEN [found |-> TRUE, panic |-> FALSE, pos |-> pos + 1]
             ELSE AnyIsErr(ixs, pos + 1, overflow_checks)

(* The reduce run over every instruction, as over a fresh iterator.        *)
ReduceRest_WholeIterator(ixs, pos, overflow_checks) ==
    LET vals == [i \in 1..Len(ixs) |->
                    LET v == IxClosure(ixs[i], overflow_checks)
                    IN  IF v.tag = "Ok" THEN v.val ELSE 0]
    IN  IF \E i \in 1..Len(ixs) : IxClosure(ixs[i], overflow_checks).tag = "Panic"
        THEN Panic
        ELSE U16Arith(SumSeq(vals), overflow_checks)

(* Lines 114-117: map(unwrap_or(0)).reduce(a + b) over what is left of the *)
(* same iterator, None => 0.                                               *)
ReduceRest(ixs, pos, overflow_checks) ==
    LET rest == SubSeq(ixs, pos + 1, Len(ixs))
        vals == [i \in 1..Len(rest) |->
                    LET v == IxClosure(rest[i], overflow_checks)
                    IN  IF v.tag = "Ok" THEN v.val ELSE 0]
    IN  IF \E i \in 1..Len(rest) : IxClosure(rest[i], overflow_checks).tag = "Panic"
        THEN Panic
        ELSE U16Arith(SumSeq(vals), overflow_checks)

(* Lines 123-140: the lookup-table step on accounts.                       *)
FilterLookups(accts, table) ==
    SelectSeq(accts, LAMBDA a : a \notin Range(table))

(* The filtered accounts alone, programs and signers not appended.         *)
ReappendProgramsAndSigners_Dropped(filtered, progs, sigs) == filtered

(* Lines 132-136: [accounts, programs, signers] flattened.                 *)
ReappendProgramsAndSigners(filtered, progs, sigs) == filtered \o progs \o sigs

(* The sum without the 32 bytes of the recent blockhash.                   *)
TotalExact_NoBlockhash(signers_len, accounts_len, instructions_len, ix_sizes, versioned, lookups) ==
    get_size_of_compressed_u16(signers_len)
    + signers_len * 64
    + 3 + get_size_of_compressed_u16(accounts_len)
    + 32 * accounts_len
    + get_size_of_compressed_u16(instructions_len)
    + ix_sizes
    + (IF versioned THEN 2 ELSE 0)
    + (IF versioned /\ lookups # 0 THEN 32 ELSE 0)
    + (IF versioned /\ lookups # 0 THEN 2 ELSE 0)
    + lookups

(* Lines 151-162: the returned sum, in exact integers.                     *)
TotalExact(signers_len, accounts_len, instructions_len, ix_sizes, versioned, lookups) ==
    get_size_of_compressed_u16(signers_len)
    + signers_len * 64
    + 3 + get_size_of_compressed_u16(accounts_len)
    + 32 * accounts_len
    + 32
    + get_size_of_compressed_u16(instructions_len)
    + ix_sizes
    + (IF versioned THEN 2 ELSE 0)
    + (IF versioned /\ lookups # 0 THEN 32 ELSE 0)
    + (IF versioned /\ lookups # 0 THEN 2 ELSE 0)
    + lookups

(* The whole function: the locals it has built and its outcome.            *)
SizeRun(ixs, versioned, alt, overflow_checks) ==
    LET progs    == CollectPrograms(ixs)
        sigs     == CollectSigners(ixs)
        accts    == CollectAccounts(ixs)
        scan     == AnyIsErr(ixs, 0, overflow_checks)
        sizes    == ReduceRest(ixs, scan.pos, overflow_checks)
        base     == [programs |-> progs, signers |-> sigs, accounts |-> accts,
                     removed |-> 0, lookups |-> 0, ix_sizes |-> 0,
                     result |-> NoResult]
        filtered == IF alt.some THEN FilterLookups(accts, alt.value) ELSE accts
        inline   == IF alt.some THEN ReappendProgramsAndSigners(filtered, progs, sigs)
                    ELSE accts
        diff     == Len(accts) - Len(inline)
        lookups  == IF alt.some THEN diff ELSE 0
        with     == [base EXCEPT !.ix_sizes = sizes.val, !.accounts = inline,
                                 !.removed = Len(accts) - Len(filtered)]
    IN  IF scan.panic THEN [base EXCEPT !.result = Panic]
        ELSE IF scan.found THEN [base EXCEPT !.result = Err("TransactionTooLarge")]
        ELSE IF sizes.tag = "Panic" THEN [base EXCEPT !.result = Panic]
        ELSE IF TryIntoU16(Len(sigs)).tag = "Err"
             THEN [base EXCEPT !.ix_sizes = sizes.val,
                               !.result = Err("ConversionWouldOverflow")]
        \* line 138: usize subtraction; below zero it panics with overflow
        \* checks and wraps to a value above U16_MAX without them
        ELSE IF lookups < 0
             THEN [with EXCEPT !.result =
                      IF overflow_checks THEN Panic ELSE Err("ConversionWouldOverflow")]
        ELSE IF TryIntoU16(lookups).tag = "Err"
                \/ TryIntoU16(Len(inline)).tag = "Err"
                \/ TryIntoU16(Len(ixs)).tag = "Err"
             THEN [with EXCEPT !.lookups = IF lookups <= U16_MAX THEN lookups ELSE 0,
                               !.result = Err("ConversionWouldOverflow")]
        ELSE [with EXCEPT !.lookups = lookups,
                          !.result = U16Arith(TotalExact(Len(sigs), Len(inline), Len(ixs),
                                                         sizes.val, versioned, lookups),
                                              overflow_checks)]

-----------------------------------------------------------------------------
(* Specification of the size estimator.                                    *)

InitSize ==
    /\ pc = "start"
    /\ PdaAtRest
    /\ result = NoResult
    /\ instructions \in InstructionLists
    /\ versioned_transaction \in BOOLEAN
    /\ address_lookup_table_addresses \in LookupTables
    /\ programs = <<>>
    /\ signers = <<>>
    /\ accounts = <<>>
    /\ removed_by_lookup = 0
    /\ number_of_address_lookups = 0
    /\ instruction_sizes = 0
    /\ entry = "get_size_of_transaction"
    /\ data = <<>>
    /\ data_borrowed_mut = FALSE
    /\ strategy = "none"
    /\ diagnostics = <<>>
    /\ decoded_from = <<>>
    /\ placeholders = {}
    /\ attempted = <<>>
    /\ program_id = None
    /\ get_account_ok = TRUE
    /\ account_owner = PROGRAM_ID
    /\ u16_n = 0
    /\ compressed_size = 0

(* One call of get_size_of_transaction; overflow_checks is the build's     *)
(* choice for unchecked integer arithmetic.                                *)
GetSizeOfTransaction ==
    /\ pc = "start"
    /\ \E overflow_checks \in BOOLEAN :
         LET r == SizeRun(instructions, versioned_transaction,
                          address_lookup_table_addresses, overflow_checks)
         IN  /\ programs' = r.programs
             /\ signers' = r.signers
             /\ accounts' = r.accounts
             /\ removed_by_lookup' = r.removed
             /\ number_of_address_lookups' = r.lookups
             /\ instruction_sizes' = r.ix_sizes
             /\ result' = r.result
    /\ pc' = "done"
    /\ UNCHANGED <<instructions, versioned_transaction, address_lookup_table_addresses>>
    /\ UNCHANGED <<decodeVars, fetchVars, compressVars, pdaVars>>

NextSize == GetSizeOfTransaction

SpecSize == InitSize /\ [][NextSize]_vars

-----------------------------------------------------------------------------
(* Claims on get_size_of_transaction.                                      *)

Done == pc = "done"

RECURSIVE IxExactSizes(_)
IxExactSizes(ixs) ==
    IF ixs = <<>> THEN <<>> ELSE <<IxExactSize(Head(ixs))>> \o IxExactSizes(Tail(ixs))

DataAndCountsFit ==
    \A i \in 1..Len(instructions) :
        /\ instructions[i].data_len <= U16_MAX
        /\ Len(instructions[i].accounts) <= U16_MAX

NoSizeOverflows ==
    /\ DataAndCountsFit
    /\ \A i \in 1..Len(instructions) : IxExactSize(instructions[i]) <= U16_MAX

(* C1: when no count overflows, the returned total is the header terms     *)
(* plus the sum over the instructions of                                   *)
(* 1 + width(account count) + account count + width(data length) + data    *)
(* length.                                                                 *)
C1_TotalIncludesInstructionSizes ==
    (Done /\ NoSizeOverflows /\ result.tag = "Ok") =>
        result.val = TotalExact(Len(signers), Len(accounts), Len(instructions),
                                SumSeq(IxExactSizes(instructions)),
                                versioned_transaction, number_of_address_lookups)

(* C5: an instruction whose data length or account count exceeds 65535     *)
(* makes the call fail with ConversionWouldOverflow.                       *)
C5_OverflowIsConversionWouldOverflow ==
    (Done /\ ~DataAndCountsFit) => result = Err("ConversionWouldOverflow")

(* C6: when an intermediate value (here a per-instruction size) exceeds    *)
(* the 16-bit range the call reports ConversionWouldOverflow; it neither   *)
(* returns a wrapped value nor aborts.                                     *)
C6_IntermediateOverflowIsReported ==
    (Done /\ DataAndCountsFit /\ ~NoSizeOverflows) =>
        result = Err("ConversionWouldOverflow")

(* The distinct identifiers of step 1 of the algorithm.                    *)
DistinctSigners == Range(CollectSigners(instructions))

DistinctPrograms == Range(CollectPrograms(instructions))

DistinctInlineAccounts ==
    IF address_lookup_table_addresses.some
    THEN (Range(CollectAccounts(instructions))
              \ Range(address_lookup_table_addresses.value))
         \cup DistinctPrograms \cup DistinctSigners
    ELSE Range(CollectAccounts(instructions))

(* C7: the signer count and the account count used in the total count      *)
(* distinct identifiers: an identifier referenced several times            *)
(* contributes once.                                                       *)
C7_CountsAreOfDistinctIdentifiers ==
    (Done /\ result.tag = "Ok") =>
        /\ Len(signers) = Cardinality(DistinctSigners)
        /\ Len(accounts) = Cardinality(DistinctInlineAccounts)

(* C8: with a lookup-table set supplied, number_of_address_lookups is the  *)
(* number of account identifiers removed from the inline accounts because  *)
(* they are in the set, and the subtraction that yields it never goes      *)
(* below zero.                                                             *)
C8_LookupsAreTheRemovedAccounts ==
    (Done /\ address_lookup_table_addresses.some /\ NoSizeOverflows) =>
        /\ result.tag = "Ok"
        /\ number_of_address_lookups = removed_by_lookup

-----------------------------------------------------------------------------
(* Bytes.  A buffer is a sequence of values 0..255; Rust's 0-based         *)
(* half-open data[a..b] is Slice(data, a, b).                              *)

Fill(n, b) == [i \in 1..n |-> b]

Slice(s, a, b) == SubSeq(s, a + 1, b)

Take(s, n) == SubSeq(s, 1, n)

ByteAt(s, i) == s[i + 1]

SetByte(s, i, v) == [s EXCEPT ![i + 1] = v]

IsPrefixOf(p, s) == Len(p) <= Len(s) /\ p = SubSeq(s, 1, Len(p))

(* u64::from_le_bytes of 8 bytes, used as a length.  Values of 2^24 and    *)
(* more are all kept as 2^24: they are only compared with buffer lengths   *)
(* and with 1024, which are far below.                                     *)
HugeLen == 256 * 256 * 256

(* The eight bytes read most significant first.                            *)
U64Le_BigEndian(b) ==
    IF \E i \in 1..5 : b[i] # 0 THEN HugeLen
    ELSE b[8] + 256 * b[7] + 65536 * b[6]

U64Le(b) ==
    IF \E i \in 4..8 : b[i] # 0 THEN HugeLen
    ELSE b[1] + 256 * b[2] + 65536 * b[3]

(* u64::to_le_bytes of a length below 2^24.                                *)
U64Bytes(n) ==
    <<n % 256, (n \div 256) % 256, (n \div 65536) % 256, 0, 0, 0, 0, 0>>

(* String::from_utf8: well-formed UTF-8 (1 to 4 byte sequences, no         *)
(* overlong forms, no surrogates, nothing above U+10FFFF).                 *)
IsCont(b) == b >= 128 /\ b <= 191

RECURSIVE Utf8From(_, _)
Utf8From(s, i) ==
    IF i > Len(s) THEN TRUE
    ELSE LET b == s[i]
             has(k) == i + k <= Len(s)
             c(k) == s[i + k]
         IN  IF b <= 127 THEN Utf8From(s, i + 1)
             ELSE IF b >= 194 /\ b <= 223
                  THEN has(1) /\ IsCont(c(1)) /\ Utf8From(s, i + 2)
             ELSE IF b >= 224 /\ b <= 239
                  THEN /\ has(2)
                       /\ IsCont(c(1)) /\ IsCont(c(2))
                       /\ (b = 224 => c(1) >= 160)
                       /\ (b = 237 => c(1) <= 159)
                       /\ Utf8From(s, i + 3)
             ELSE IF b >= 240 /\ b <= 244
                  THEN /\ has(3)
                       /\ IsCont(c(1)) /\ IsCont(c(2)) /\ IsCont(c(3))
                       /\ (b = 240 => c(1) >= 144)
                       /\ (b = 244 => c(1) <= 143)
                       /\ Utf8From(s, i + 4)
             ELSE FALSE

Utf8Valid(s) == Utf8From(s, 1)

-----------------------------------------------------------------------------
(* bincode 1.x with fixed-width little-endian integers, driven by the      *)
(* field list serde derives from a struct.  Field kinds:                   *)
(*   fixed  - size bytes (u8, u16, u32, f32, u64, Pubkey = [u8; 32])       *)
(*   option - one tag byte, 0 = None, 1 = Some followed by size bytes      *)
(*   string - u64 length, then that many bytes of UTF-8                    *)
(*   vec    - u64 length, then that many elements of size bytes            *)
(*   groups - u64 length, then that many ElevationGroup structs            *)
(* A decoded field is the bytes it was read from (an Option: None or       *)
(* Some(bytes); a vec: the bytes of its elements; groups: a sequence).     *)

Field(n, k, sz) == [name |-> n, kind |-> k, size |-> sz]

ReadFail(pos) == [ok |-> FALSE, pos |-> pos, val |-> <<>>]

ReadOk(pos, v) == [ok |-> TRUE, pos |-> pos, val |-> v]

ReadFixed(d, pos, n) ==
    IF pos + n <= Len(d) THEN ReadOk(pos + n, Slice(d, pos, pos + n)) ELSE ReadFail(pos)

ReadOption(d, pos, n) ==
    IF pos + 1 > Len(d) THEN ReadFail(pos)
    ELSE IF ByteAt(d, pos) = 0 THEN ReadOk(pos + 1, None)
    ELSE IF ByteAt(d, pos) = 1
         THEN IF pos + 1 + n <= Len(d)
              THEN ReadOk(pos + 1 + n, Some(Slice(d, pos + 1, pos + 1 + n)))
              ELSE ReadFail(pos)
    ELSE ReadFail(pos)   \* invalid tag encoding

ReadVec(d, pos, elem) ==
    IF pos + 8 > Len(d) THEN ReadFail(pos)
    ELSE LET n == U64Le(Slice(d, pos, pos + 8))
         IN  IF pos + 8 + n * elem <= Len(d)
             THEN ReadOk(pos + 8 + n * elem, Slice(d, pos + 8, pos + 8 + n * elem))
             ELSE ReadFail(pos)

ReadString(d, pos) ==
    LET r == ReadVec(d, pos, 1)
    IN  IF r.ok /\ Utf8Valid(r.val) THEN r ELSE ReadFail(pos)

(* ElevationGroup: 2 + 2 + 5 * 4 + 32 = 56 bytes of fixed-width fields,    *)
(* then padding1: Vec<u64>.                                                *)
ElevationGroupFixedBytes == 56

RECURSIVE ReadGroupItems(_, _, _, _)
ReadGroupItems(d, pos, n, acc) ==
    IF n = 0 THEN ReadOk(pos, acc)
    ELSE LET f == ReadFixed(d, pos, ElevationGroupFixedBytes)
             v == ReadVec(d, f.pos, 8)
         IN  IF f.ok /\ v.ok
             THEN ReadGroupItems(d, v.pos, n - 1,
                                 Append(acc, [fixed |-> f.val, padding1 |-> v.val]))
             ELSE ReadFail(pos)

ReadGroups(d, pos) ==
    IF pos + 8 > Len(d) THEN ReadFail(pos)
    ELSE ReadGroupItems(d, pos + 8, U64Le(Slice(d, pos, pos + 8)), <<>>)

ReadField(f, d, pos) ==
    CASE f.kind = "fixed"  -> ReadFixed(d, pos, f.size)
      [] f.kind = "option" -> ReadOption(d, pos, f.size)
      [] f.kind = "string" -> ReadString(d, pos)
      [] f.kind = "vec"    -> ReadVec(d, pos, f.size)
      [] f.kind = "groups" -> ReadGroups(d, pos)

RECURSIVE ReadFields(_, _, _, _, _)
ReadFields(schema, i, d, pos, acc) ==
    IF i > Len(schema) THEN ReadOk(pos, acc)
    ELSE LET r == ReadField(schema[i], d, pos)
         IN  IF r.ok
             THEN ReadFields(schema, i + 1, d, r.pos, acc @@ (schema[i].name :> r.val))
             ELSE ReadFail(pos)

EmptyRecord == [x \in {} |-> <<>>]

(* bincode::deserialize(bytes): fixed-width integers, little endian, no    *)
(* size limit, trailing bytes allowed.  pos is the number of bytes read.   *)
BincodeDeserialize(schema, d) == ReadFields(schema, 1, d, 0, EmptyRecord)

(* DefaultOptions::new().with_little_endian().with_fixint_encoding()       *)
(* .with_limit(limit).deserialize(bytes): the same encoding; every byte    *)
(* read is charged to the limit, and bytes left over are an error          *)
(* (DefaultOptions rejects trailing bytes).                                *)
BincodeConfigDeserialize(schema, d, limit) ==
    LET r == ReadFields(schema, 1, d, 0, EmptyRecord)
    IN  IF r.ok /\ r.pos <= limit /\ r.pos = Len(d) THEN r ELSE ReadFail(0)

(* bincode::serialize, the inverse wire format (derive(Serialize)).        *)
RECURSIVE WriteGroups(_)
WriteGroups(gs) ==
    IF gs = <<>> THEN <<>>
    ELSE Head(gs).fixed \o U64Bytes(Len(Head(gs).padding1) \div 8) \o Head(gs).padding1
         \o WriteGroups(Tail(gs))

WriteField(f, v) ==
    CASE f.kind = "fixed"  -> v
      [] f.kind = "option" -> IF v.some THEN <<1>> \o v.value ELSE <<0>>
      [] f.kind = "string" -> U64Bytes(Len(v)) \o v
      [] f.kind = "vec"    -> U64Bytes(Len(v) \div f.size) \o v
      [] f.kind = "groups" -> U64Bytes(Len(v)) \o WriteGroups(v)

RECURSIVE WriteFields(_, _, _)
WriteFields(schema, i, rec) ==
    IF i > Len(schema) THEN <<>>
    ELSE WriteField(schema[i], rec[schema[i].name]) \o WriteFields(schema, i + 1, rec)

BincodeSerialize(schema, rec) == WriteFields(schema, 1, rec)

-----------------------------------------------------------------------------
(* The three account layouts.                                              *)

SOLEND_LENDING_MARKET_SIZE == 290

LENDING_MARKET_METADATA_SIZE == 111

KAMINO_LENDING_MARKET_SIZE == 272

PubkeyBytes == 32

SolendMarketSchema ==
    << Field("version", "fixed", 1),
       Field("bump_seed", "fixed", 1),
       Field("owner", "fixed", PubkeyBytes),
       Field("quote_token_mint", "fixed", PubkeyBytes),
       Field("token_program_id", "fixed", PubkeyBytes),
       Field("oracle_program_id", "fixed", PubkeyBytes),
       Field("switchboard_oracle_program_id", "fixed", PubkeyBytes),
       Field("rate_limiter_config_window_duration", "fixed", 8),
       Field("rate_limiter_config_max_outflow", "fixed", 8),
       Field("rate_limiter_previous_quantity", "fixed", 8),
       Field("rate_limiter_window_start", "fixed", 8),
       Field("rate_limiter_current_quantity", "fixed", 8),
       Field("whitelisted_liquidator", "option", PubkeyBytes),
       Field("risk_authority", "fixed", PubkeyBytes) >>

MetadataSchema ==
    << Field("bump_seed", "fixed", 8),
       Field("market_name", "string", 1),
       Field("market_description", "string", 1),
       Field("market_image_url", "string", 1),
       Field("lookup_tables", "vec", 1) >>

KaminoMarketSchema ==
    << Field("version", "fixed", 1),
       Field("bump_seed", "fixed", 4),
       Field("lending_market_owner", "fixed", PubkeyBytes),
       Field("lending_market_owner_cache", "fixed", PubkeyBytes),
       Field("quote_currency", "vec", 1),
       Field("referral_fee_bps", "fixed", 2),
       Field("emergency_mode", "fixed", 1),
       Field("auto_deleverage_enabled", "fixed", 1),
       Field("borrow_disabled", "fixed", 1),
       Field("price_refresh_trigger_to_max_age_pct", "fixed", 4),
       Field("liquidation_max_debt_close_factor_pct", "fixed", 1),
       Field("insolvency_risk_unhealthy_ltv_pct", "fixed", 4),
       Field("min_full_liquidation_value_threshold", "fixed", 8),
       Field("max_liquidatable_debt_market_value_at_once", "fixed", 8),
       Field("reserved0", "vec", 8),
       Field("global_allowed_borrow_value", "fixed", 8),
       Field("risk_council", "fixed", PubkeyBytes),
       Field("reserved1", "vec", 8),
       Field("elevation_groups", "groups", 0),
       Field("elevation_group_padding", "vec", 8),
       Field("min_net_value_in_obligation_sf", "fixed", 8),
       Field("min_value_skip_liquidation_ltv_checks", "fixed", 8),
       Field("name", "vec", 1),
       Field("min_value_skip_liquidation_bf_checks", "fixed", 8),
       Field("min_initial_deposit_amount", "fixed", 8),
       Field("obligation_orders_enabled", "fixed", 1),
       Field("padding2", "vec", 1),
       Field("padding1", "vec", 8) >>

-----------------------------------------------------------------------------
(* What a decoding call leaves behind: its outcome, the strategy that      *)
(* produced the returned record, the eprintln! lines written on the way,   *)
(* the bytes the record was deserialized from, and the fields of the       *)
(* record that were set from literals instead of bytes.                    *)

Out(res, strat, diag, from, ph) ==
    [result |-> res, strategy |-> strat, diagnostics |-> diag,
     decoded_from |-> from, placeholders |-> ph, attempts |-> <<>>]

(* The outcome o of a call made after the strategies a have run.           *)
Tried(a, o) == [o EXCEPT !.attempts = a \o @]

Failed(e, diag) == Out(Err(e), "none", diag, <<>>, {})

Panicked(diag) == Out(Panic, "none", diag, <<>>, {})

SliceOk(d, a, b) == a <= b /\ b <= Len(d)

Positions206(d) == {i \in 0..(Len(d) - 1) : ByteAt(d, i) = 206}

FirstHit(hits) ==
    CHOOSE h \in hits : \A g \in hits : h[1] < g[1] \/ (h[1] = g[1] /\ h[2] <= g[2])

-----------------------------------------------------------------------------------------------------------------------------------------------------
(* solend-sdk state/lending_market.rs                                      *)

(* Lines 106 and 126: bincode::deserialize::<Self> of the modified copy.   *)
FixAttempt(d, i, replacement) ==
    BincodeDeserialize(SolendMarketSchema, SetByte(d, i, replacement))

(* The (position, replacement) pairs of a loop whose modified copy         *)
(* deserializes.                                                           *)
FixHits(d, positions) ==
    {h \in positions \X {0, 1} : FixAttempt(d, h[1], h[2]).ok}

(* Lines 107-110 and 127-129: return the record read from the copy.        *)
FixReturn(d, h, diag) ==
    Out(Ok(FixAttempt(d, h[1], h[2]).val), "fix_enum_tag", diag, SetByte(d, h[1], h[2]), {})

(* Lines 83-137, hits1 and hits2 being the successful attempts of the loop *)
(* of line 99 and of the loop of line 122; each loop returns at its first. *)
TryFixSteps(d, found206, hits1, hits2) ==
    IF Len(d) < 180
    THEN Failed("FailedToParse", <<"Attempting to fix enum tag error">>)
    ELSE Tried(IF found206 \/ Len(d) - 32 > 180 THEN <<"fix_enum_tag">> ELSE <<>>,
    IF hits1 # {}
    THEN FixReturn(d, FirstHit(hits1),
                   <<"Attempting to fix enum tag error", "Found byte value 206 at position",
                     "Successfully deserialized by replacing byte 206">>)
    ELSE IF hits2 # {}
    THEN FixReturn(d, FirstHit(hits2),
                   <<"Attempting to fix enum tag error">>
                       \o (IF found206 THEN <<"Found byte value 206 at position">> ELSE <<>>))
    ELSE Failed("FailedToParse",
                <<"Attempting to fix enum tag error">>
                    \o (IF found206 THEN <<"Found byte value 206 at position">> ELSE <<>>)))

try_fix_enum_tag_error(d) ==
    TryFixSteps(d, Positions206(d) # {},
                FixHits(d, Positions206(d)),
                FixHits(d, 180..(Len(d) - 32 - 1)))

(* Lines 41-80, s1, s2, s3 being the three deserializations of lines 43,   *)
(* 55 and 67 and fix the call of line 79.                                  *)
LendingMarketSteps(d, s1, s2, s3, fix) ==
    IF s1.ok THEN Tried(<<"strict">>, Out(Ok(s1.val), "strict", <<>>, d, {}))
    ELSE IF s2.ok
    THEN Tried(<<"strict", "relaxed">>,
               Out(Ok(s2.val), "relaxed", <<"Standard deserialization failed">>, d, {}))
    ELSE IF Len(d) > SOLEND_LENDING_MARKET_SIZE /\ s3.ok
    THEN Tried(<<"strict", "relaxed", "truncated">>,
               Out(Ok(s3.val), "truncated",
                   <<"Standard deserialization failed", "Custom config deserialization failed",
                     "Warning: Successfully deserialized using truncated data">>,
                   Take(d, SOLEND_LENDING_MARKET_SIZE), {}))
    ELSE Tried(<<"strict", "relaxed">>
                   \o (IF Len(d) > SOLEND_LENDING_MARKET_SIZE THEN <<"truncated">> ELSE <<>>),
               [fix EXCEPT !.diagnostics =
                   <<"Standard deserialization failed", "Custom config deserialization failed">>
                   \o (IF Len(d) > SOLEND_LENDING_MARKET_SIZE
                       THEN <<"Truncated data deserialization failed">> ELSE <<>>)
                   \o @])

LendingMarket_from_bytes(d) ==
    LendingMarketSteps(d,
        BincodeDeserialize(SolendMarketSchema, d),
        BincodeConfigDeserialize(SolendMarketSchema, d, SOLEND_LENDING_MARKET_SIZE),
        BincodeDeserialize(SolendMarketSchema, Take(d, SOLEND_LENDING_MARKET_SIZE)),
        try_fix_enum_tag_error(d))

(* Lines 140-173: the slices and indexes debug_bytes takes; it panics when *)
(* one is out of range.                                                    *)
LendingMarket_debug_bytes_panics(d) ==
    ~ /\ (Len(d) >= 2 => SliceOk(d, 0, 2))
      /\ (Len(d) > 20 => SliceOk(d, 0, 20))
      /\ \A i \in Positions206(d) :
            SliceOk(d, IF i >= 5 THEN i - 5 ELSE 0, IF i + 5 < Len(d) THEN i + 5 ELSE Len(d))
      /\ (Len(d) >= 200 => SliceOk(d, 180, 180 + 10))

(* from_account_info of both Solend types (lending_market.rs lines         *)
(* 187-195, lending_market_metadata.rs lines 180-188): try_borrow_data,    *)
(* debug_bytes, then from_bytes, whose outcome is decoded.                 *)
FromAccountInfoSteps(borrowed_mut, debug_panics, dbg, decoded) ==
    IF borrowed_mut THEN Failed("UnknownError", <<>>)
    ELSE IF debug_panics THEN Panicked(dbg)
    ELSE [decoded EXCEPT !.diagnostics = dbg \o @]

LendingMarket_from_account_info(d, borrowed_mut) ==
    FromAccountInfoSteps(borrowed_mut, LendingMarket_debug_bytes_panics(d),
                         <<"Data length">>, LendingMarket_from_bytes(d))

DefaultPubkey == Fill(PubkeyBytes, 0)

(* Lines 222-256: the hardcoded template and what it takes from the data.  *)
TemplateLendingMarket(d) ==
    [ version |-> IF Len(d) >= 1 THEN <<ByteAt(d, 0)>> ELSE <<1>>,
      bump_seed |-> IF Len(d) >= 2 THEN <<ByteAt(d, 1)>> ELSE <<0>>,
      owner |-> IF Len(d) >= 34 THEN Slice(d, 2, 34) ELSE DefaultPubkey,
      quote_token_mint |-> IF Len(d) >= 66 THEN Slice(d, 34, 66) ELSE DefaultPubkey,
      token_program_id |-> DefaultPubkey,
      oracle_program_id |-> DefaultPubkey,
      switchboard_oracle_program_id |-> DefaultPubkey,
      rate_limiter_config_window_duration |-> U64Bytes(1),
      rate_limiter_config_max_outflow |-> U64Bytes(0),
      rate_limiter_previous_quantity |-> U64Bytes(0),
      rate_limiter_window_start |-> U64Bytes(0),
      rate_limiter_current_quantity |-> U64Bytes(0),
      whitelisted_liquidator |-> None,
      risk_authority |-> DefaultPubkey ]

TemplatePlaceholders(d) ==
    { "token_program_id", "oracle_program_id", "switchboard_oracle_program_id",
      "rate_limiter_config_window_duration", "rate_limiter_config_max_outflow",
      "rate_limiter_previous_quantity", "rate_limiter_window_start",
      "rate_limiter_current_quantity", "whitelisted_liquidator", "risk_authority" }
    \cup (IF Len(d) >= 1 THEN {} ELSE {"version"})
    \cup (IF Len(d) >= 2 THEN {} ELSE {"bump_seed"})
    \cup (IF Len(d) >= 34 THEN {} ELSE {"owner"})
    \cup (IF Len(d) >= 66 THEN {} ELSE {"quote_token_mint"})

(* Lines 200-271, r being the outcome of from_account_info (line 204).     *)
ParseLendingMarketSteps(d, borrowed_mut, r) ==
    IF r.result.tag # "Err" THEN r
    ELSE Tried(r.attempts \o (IF ~borrowed_mut /\ Positions206(d) # {}
                              THEN <<"template">> ELSE <<>>),
    IF borrowed_mut
    THEN Failed("UnknownError",
                r.diagnostics \o <<"Failed to parse lending market using standard methods",
                                   "Trying alternative parsing methods...">>)
    ELSE IF Positions206(d) # {}
    THEN Out(Ok(TemplateLendingMarket(d)), "template",
             r.diagnostics \o <<"Failed to parse lending market using standard methods",
                                "Trying alternative parsing methods...",
                                "Found problematic byte 206",
                                "Created a partial lending market">>,
             d, TemplatePlaceholders(d))
    ELSE Failed("FailedToParse",
                r.diagnostics \o <<"Failed to parse lending market using standard methods",
                                   "Trying alternative parsing methods...">>))

parse_lending_market(d, borrowed_mut) ==
    ParseLendingMarketSteps(d, borrowed_mut, LendingMarket_from_account_info(d, borrowed_mut))

-----------------------------------------------------------------------------
(* solend-sdk state/lending_market_metadata.rs.  A String is kept as its   *)
(* UTF-8 bytes.                                                            *)

UnknownMarket == <<85, 110, 107, 110, 111, 119, 110, 32, 77, 97, 114, 107, 101, 116>>

UnknownDescription == <<85, 110, 107, 110, 111, 119, 110, 32, 68, 101, 115, 99, 114, 105, 112, 116, 105, 111, 110>>

CouldNotParse == <<69, 114, 114, 111, 114, 58, 32, 67, 111, 117, 108, 100, 32, 110, 111, 116, 32, 112, 97, 114, 115, 101, 32, 109, 101, 116, 97, 100, 97, 116, 97>>

NoString == [ok |-> FALSE, val |-> <<>>, used |-> 0]

(* Lines 121-143.  Returns the string and the bytes consumed.              *)
extract_string_from_data(d) ==
    IF Len(d) < 8 THEN NoString
    ELSE IF U64Le(Slice(d, 0, 8)) > Len(d) - 8 \/ U64Le(Slice(d, 0, 8)) > 1024 THEN NoString
    ELSE IF Utf8Valid(Slice(d, 8, 8 + U64Le(Slice(d, 0, 8))))
    THEN [ok |-> TRUE, val |-> Slice(d, 8, 8 + U64Le(Slice(d, 0, 8))),
          used |-> 8 + U64Le(Slice(d, 0, 8))]
    ELSE NoString

(* Lines 93-116, x being the outcome of extract_string_from_data when      *)
(* line 101 calls it.                                                      *)
ManualRecord(d, named, x) ==
    Tried(<<"manual">>,
    Out(Ok([ bump_seed |-> Slice(d, 0, 8),
             market_name |-> IF named THEN x.val ELSE UnknownMarket,
             market_description |-> UnknownDescription,
             market_image_url |-> <<>>,
             lookup_tables |-> <<>> ]),
        "manual", <<"Attempting manual deserialization of LendingMarketMetadata">>, d,
        {"market_description", "market_image_url", "lookup_tables"}
            \cup (IF named THEN {} ELSE {"market_name"})))

NameExtracted(d, x) == Len(d) > 16 /\ x.ok

(* Lines 78-117.                                                           *)
try_manual_deserialize(d) ==
    IF Len(d) < 8
    THEN Failed("FailedToParse", <<"Attempting manual deserialization of LendingMarketMetadata">>)
    ELSE ManualRecord(d, NameExtracted(d, extract_string_from_data(Slice(d, 8, Len(d)))),
                      extract_string_from_data(Slice(d, 8, Len(d))))

(* Lines 36-75, s1, s2, s3 being the three deserializations of lines 38,   *)
(* 50 and 62 and manual the call of line 74.                               *)
LendingMarketMetadataSteps(d, s1, s2, s3, manual) ==
    IF s1.ok THEN Tried(<<"strict">>, Out(Ok(s1.val), "strict", <<>>, d, {}))
    ELSE IF s2.ok
    THEN Tried(<<"strict", "relaxed">>,
               Out(Ok(s2.val), "relaxed", <<"Standard deserialization of metadata failed">>,
                   d, {}))
    ELSE IF Len(d) > LENDING_MARKET_METADATA_SIZE /\ s3.ok
    THEN Tried(<<"strict", "relaxed", "truncated">>,
               Out(Ok(s3.val), "truncated",
                   <<"Standard deserialization of metadata failed",
                     "Custom config deserialization of metadata failed",
                     "Warning: Successfully deserialized metadata using truncated data">>,
                   Take(d, LENDING_MARKET_METADATA_SIZE), {}))
    ELSE Tried(<<"strict", "relaxed">>
                   \o (IF Len(d) > LENDING_MARKET_METADATA_SIZE THEN <<"truncated">> ELSE <<>>),
               [manual EXCEPT !.diagnostics =
                   <<"Standard deserialization of metadata failed",
                     "Custom config deserialization of metadata failed">>
                   \o (IF Len(d) > LENDING_MARKET_METADATA_SIZE
                       THEN <<"Truncated data deserialization for metadata failed">>
                       ELSE <<>>)
                   \o @])

LendingMarketMetadata_from_bytes(d) ==
    LendingMarketMetadataSteps(d,
        BincodeDeserialize(MetadataSchema, d),
        BincodeConfigDeserialize(MetadataSchema, d, LENDING_MARKET_METADATA_SIZE),
        BincodeDeserialize(MetadataSchema, Take(d, LENDING_MARKET_METADATA_SIZE)),
        try_manual_deserialize(d))

(* Line 166: the sanity check on the possible string length.               *)
PlausibleStrLen(d, n) == n > 0 /\ n < 100 /\ n <= Len(d) - 16

(* Lines 146-177: the slices debug_bytes takes.                            *)
LendingMarketMetadata_debug_bytes_panics(d) ==
    ~ /\ (Len(d) >= 8 => SliceOk(d, 0, 8))
      /\ (Len(d) > 20 => SliceOk(d, 0, 20))
      /\ (Len(d) > 8 =>
            /\ SliceOk(d, 8, 16)
            /\ (PlausibleStrLen(d, U64Le(Slice(d, 8, 16)))
                  => SliceOk(d, 16, 16 + U64Le(Slice(d, 8, 16)))))

LendingMarketMetadata_from_account_info(d, borrowed_mut) ==
    FromAccountInfoSteps(borrowed_mut, LendingMarketMetadata_debug_bytes_panics(d),
                         <<"Metadata data length">>, LendingMarketMetadata_from_bytes(d))

(* Lines 212-258, r being the outcome of from_account_info (line 216).     *)
ParseLendingMarketMetadataSteps(d, borrowed_mut, r) ==
    IF r.result.tag # "Err" THEN r
    ELSE Tried(r.attempts \o (IF ~borrowed_mut /\ Len(d) >= 8 THEN <<"template">> ELSE <<>>),
    IF borrowed_mut
    THEN Failed("UnknownError",
                r.diagnostics
                \o <<"Failed to parse lending market metadata using standard methods",
                     "Trying alternative parsing methods...">>)
    ELSE IF Len(d) >= 8
    THEN Out(Ok([ bump_seed |-> Slice(d, 0, 8),
                  market_name |-> CouldNotParse,
                  market_description |-> CouldNotParse,
                  market_image_url |-> <<>>,
                  lookup_tables |-> <<>> ]),
             "template",
             r.diagnostics
             \o <<"Failed to parse lending market metadata using standard methods",
                  "Trying alternative parsing methods...", "Created a partial metadata">>,
             d, {"market_name", "market_description", "market_image_url", "lookup_tables"})
    ELSE Failed("FailedToParse",
                r.diagnostics
                \o <<"Failed to parse lending market metadata using standard methods",
                     "Trying alternative parsing methods...">>))

parse_lending_market_metadata(d, borrowed_mut) ==
    ParseLendingMarketMetadataSteps(d, borrowed_mut,
                                    LendingMarketMetadata_from_account_info(d, borrowed_mut))

(* array.iter().position(..): the index, from 0, of the first byte that is *)
(* zero (zero = TRUE) or non-zero (zero = FALSE); -1 stands for None.      *)
PositionOf(s, zero) ==
    IF \E i \in 1..Len(s) : (s[i] = 0) = zero
    THEN (CHOOSE i \in 1..Len(s) :
              /\ (s[i] = 0) = zero
              /\ \A j \in 1..(i - 1) : (s[j] = 0) # zero) - 1
    ELSE -1

(* Lines 205-209, from the two positions: the slice and the conversion.    *)
TrimSteps(array, start_pos, end_pos) ==
    IF ~SliceOk(array, start_pos, end_pos) THEN Panicked(<<>>)
    ELSE IF Utf8Valid(Slice(array, start_pos, end_pos))
    THEN Out(Ok(Slice(array, start_pos, end_pos)), "none", <<>>, <<>>, {})
    ELSE Failed("FailedToParse", <<>>)

(* Lines 197-202: end_pos, the search starting at start_pos.               *)
TrimEnd(array, start_pos, pos) == IF pos >= 0 THEN start_pos + pos ELSE Len(array)

(* trim_string that does not skip the leading zeros.                       *)
trim_string_FromStart(array) ==
    TrimSteps(array, 0, TrimEnd(array, 0, PositionOf(array, TRUE)))

(* Lines 193-210.                                                          *)
trim_string(array) ==
    IF PositionOf(array, FALSE) >= 0
    THEN TrimSteps(array, PositionOf(array, FALSE),
                   TrimEnd(array, PositionOf(array, FALSE),
                           PositionOf(Slice(array, PositionOf(array, FALSE), Len(array)),
                                      TRUE)))
    ELSE TrimSteps(array, 0, TrimEnd(array, 0, PositionOf(array, TRUE)))

-----------------------------------------------------------------------------
(* kamino-sdk idl_types/accounts/lending_market.rs, lines 125-150, s1, s2, *)
(* s3 being the deserializations of lines 130, 135 and 140.                *)

(* from_bytes trying the truncated data before the whole buffer.           *)
KaminoLendingMarketSteps_TruncatedFirst(d, s1, s2, s3) ==
    IF Len(d) < KAMINO_LENDING_MARKET_SIZE THEN Failed("InvalidProgramData", <<>>)
    ELSE IF Len(d) > KAMINO_LENDING_MARKET_SIZE /\ s3.ok
    THEN Tried(<<"truncated">>,
               Out(Ok(s3.val), "truncated",
                   <<"Warning: Successfully deserialized metadata using truncated data">>,
                   Take(d, KAMINO_LENDING_MARKET_SIZE), {}))
    ELSE IF s1.ok THEN Tried(<<"truncated", "strict">>, Out(Ok(s1.val), "strict", <<>>, d, {}))
    ELSE IF s2.ok
    THEN Tried(<<"truncated", "strict", "relaxed">>,
               Out(Ok(s2.val), "relaxed", <<>>, d, {}))
    ELSE Tried(<<"truncated", "strict", "relaxed">>, Failed("FailedToParse", <<>>))

(* from_bytes without the length check of lines 126-128.                   *)
KaminoLendingMarketSteps_NoLengthCheck(d, s1, s2, s3) ==
    IF s1.ok THEN Tried(<<"strict">>, Out(Ok(s1.val), "strict", <<>>, d, {}))
    ELSE IF s2.ok
    THEN Tried(<<"strict", "relaxed">>, Out(Ok(s2.val), "relaxed", <<>>, d, {}))
    ELSE IF Len(d) > KAMINO_LENDING_MARKET_SIZE /\ s3.ok
    THEN Tried(<<"strict", "relaxed", "truncated">>,
               Out(Ok(s3.val), "truncated",
                   <<"Warning: Successfully deserialized metadata using truncated data">>,
                   Take(d, KAMINO_LENDING_MARKET_SIZE), {}))
    ELSE Tried(<<"strict", "relaxed">>
                   \o (IF Len(d) > KAMINO_LENDING_MARKET_SIZE THEN <<"truncated">> ELSE <<>>),
               Failed("FailedToParse", <<>>))

KaminoLendingMarketSteps(d, s1, s2, s3) ==
    IF Len(d) < KAMINO_LENDING_MARKET_SIZE THEN Failed("InvalidProgramData", <<>>)
    ELSE IF s1.ok THEN Tried(<<"strict">>, Out(Ok(s1.val), "strict", <<>>, d, {}))
    ELSE IF s2.ok
    THEN Tried(<<"strict", "relaxed">>, Out(Ok(s2.val), "relaxed", <<>>, d, {}))
    ELSE IF Len(d) > KAMINO_LENDING_MARKET_SIZE /\ s3.ok
    THEN Tried(<<"strict", "relaxed", "truncated">>,
               Out(Ok(s3.val), "truncated",
                   <<"Warning: Successfully deserialized metadata using truncated data">>,
                   Take(d, KAMINO_LENDING_MARKET_SIZE), {}))
    ELSE Tried(<<"strict", "relaxed">>
                   \o (IF Len(d) > KAMINO_LENDING_MARKET_SIZE THEN <<"truncated">> ELSE <<>>),
               Failed("FailedToParse", <<>>))

KaminoLendingMarket_from_bytes(d) ==
    KaminoLendingMarketSteps(d,
        BincodeDeserialize(KaminoMarketSchema, d),
        BincodeConfigDeserialize(KaminoMarketSchema, d, KAMINO_LENDING_MARKET_SIZE),
        BincodeDeserialize(KaminoMarketSchema, Take(d, KAMINO_LENDING_MARKET_SIZE)))

(* fetch without the owner comparison of lines 99-101.                     *)
FetchSteps_NoOwnerCheck(pid, fetched, owner, decoded) ==
    IF ~fetched THEN Failed("FailedToFetch", <<>>) ELSE decoded

(* Lines 89-104: fetch, decoded being the outcome of from_bytes on the     *)
(* account's data (line 103).                                              *)
FetchSteps(pid, fetched, owner, decoded) ==
    IF ~fetched THEN Failed("FailedToFetch", <<>>)
    ELSE IF owner # (IF pid.some THEN pid.value ELSE PROGRAM_ID)
    THEN Failed("InvalidProgramData", <<>>)
    ELSE decoded

KaminoLendingMarket_fetch(pid, fetched, owner, d) ==
    FetchSteps(pid, fetched, owner, KaminoLendingMarket_from_bytes(d))

-----
(* Account data the decoders are called on.                                *)

MaxSurplus == 2

Resize(b, n, pad) == IF n <= Len(b) THEN Take(b, n) ELSE b \o Fill(n - Len(b), pad)

(* Solend lending market: n bytes of fill, the Option tag of               *)
(* whitelisted_liquidator (offset 202) set to tag, and one byte 206 at     *)
(* offset at206 (none when at206 is -1).                                   *)
SolendMarketBuffer(n, fill, tag, at206) ==
    [i \in 1..n |-> IF i - 1 = at206 THEN 206 ELSE IF i - 1 = 202 THEN tag ELSE fill]

SolendMarketLens ==
    {0, 1, 100, 180, 234, 235, 266, 267, 289, 290}
        \cup ((SOLEND_LENDING_MARKET_SIZE + 1)..(SOLEND_LENDING_MARKET_SIZE + MaxSurplus))

SolendMarketBuffers ==
    {SolendMarketBuffer(n, fill, tag, at206) :
        n \in SolendMarketLens, fill \in {0, 7}, tag \in {0, 1, 2}, at206 \in {-1, 5, 202, 240}}

(* The lending markets whose encodings, padded with fill, are among the    *)
(* buffers above.                                                          *)
SolendMarketRecord(fill, liquidator) ==
    [ f \in {SolendMarketSchema[i].name : i \in 1..Len(SolendMarketSchema)} |->
        IF f = "whitelisted_liquidator" THEN liquidator
        ELSE Fill((CHOOSE x \in Range(SolendMarketSchema) : x.name = f).size, fill) ]

SolendMarketRecords ==
    {SolendMarketRecord(fill, liquidator) :
        fill \in {0, 7}, liquidator \in {None, Some(Fill(PubkeyBytes, 0)),
                                          Some(Fill(PubkeyBytes, 7))}}

(* Lending market metadata: serialized records cut or padded to n bytes,   *)
(* and constant buffers.                                                   *)
MetadataRecord(name, description, url, tables) ==
    [ bump_seed |-> <<254, 0, 0, 0, 0, 0, 0, 0>>,
      market_name |-> name,
      market_description |-> description,
      market_image_url |-> url,
      lookup_tables |-> tables ]

MetadataRecords ==
    { MetadataRecord(<<>>, <<>>, <<>>, <<>>),
      MetadataRecord(Fill(3, 77), <<>>, <<>>, <<1, 2>>),
      MetadataRecord(Fill(20, 77), Fill(30, 68), Fill(21, 104), <<>>) }

MetadataLens ==
    {0, 7, 8, 9, 15, 16, 17, 24, 40, 45, 110, 111}
        \cup ((LENDING_MARKET_METADATA_SIZE + 1)..(LENDING_MARKET_METADATA_SIZE + MaxSurplus))

MetadataBuffers ==
    {Resize(BincodeSerialize(MetadataSchema, r), n, pad) :
        r \in MetadataRecords, n \in MetadataLens, pad \in {0, 206}}
    \cup {Fill(n, b) : n \in MetadataLens, b \in {1, 255}}

(* Kamino lending market.                                                  *)
KaminoGroup == [fixed |-> Fill(ElevationGroupFixedBytes, 3), padding1 |-> <<>>]

KaminoRecord(quote, groups, name) ==
    [ f \in {KaminoMarketSchema[i].name : i \in 1..Len(KaminoMarketSchema)} |->
        LET fld == CHOOSE x \in Range(KaminoMarketSchema) : x.name = f
        IN  CASE f = "quote_currency" -> quote
              [] f = "elevation_groups" -> groups
              [] f = "name" -> name
              [] fld.kind = "vec" -> <<>>
              [] OTHER -> Fill(fld.size, 5) ]

KaminoRecords ==
    { KaminoRecord(<<>>, <<>>, <<>>),
      KaminoRecord(Fill(32, 85), <<>>, Fill(4, 77)),
      KaminoRecord(<<>>, <<KaminoGroup>>, <<>>),
      KaminoRecord(<<>>, <<>>, Fill(36, 77)) }

KaminoLens ==
    {0, 236, 271, 272, 300}
        \cup ((KAMINO_LENDING_MARKET_SIZE + 1)..(KAMINO_LENDING_MARKET_SIZE + MaxSurplus))

KaminoBuffers ==
    {Resize(BincodeSerialize(KaminoMarketSchema, r), n, pad) :
        r \in KaminoRecords, n \in KaminoLens, pad \in {0, 9}}
    \cup {Fill(n, 1) : n \in KaminoLens}

-----------------------------------------------------------------------------
(* Specification of the decoders: one call of one entry point.             *)

SolendMarketEntries ==
    {"LendingMarket::from_bytes", "LendingMarket::try_fix_enum_tag_error",
     "LendingMarket::from_account_info", "parse_lending_market"}

MetadataEntries ==
    {"LendingMarketMetadata::from_bytes", "LendingMarketMetadata::try_manual_deserialize",
     "LendingMarketMetadata::from_account_info", "parse_lending_market_metadata"}

KaminoEntries == {"kamino::LendingMarket::from_bytes"}

FetchEntries == {"kamino::LendingMarket::fetch"}

TrimEntries == {"trim_string"}

(* Arrays given to trim_string: zero bytes, 'A', and the two bytes of a    *)
(* two-byte UTF-8 character, which are not valid on their own.             *)
MaxTrimLen == 3

TrimBytes == {0, 65, 195, 169}

TrimInputs == UNION {[1..n -> TrimBytes] : n \in 0..MaxTrimLen}

(* The system program, an owner other than PROGRAM_ID.                     *)
SystemProgram == "11111111111111111111111111111111"

Owners == {PROGRAM_ID, SystemProgram}

ProgramIdArgs == {None, Some(PROGRAM_ID), Some(SystemProgram)}

AccountInfoEntries ==
    {"LendingMarket::from_account_info", "parse_lending_market",
     "LendingMarketMetadata::from_account_info", "parse_lending_market_metadata"}

InitDecode ==
    /\ pc = "start"
    /\ PdaAtRest
    /\ result = NoResult
    /\ instructions = <<>>
    /\ versioned_transaction = FALSE
    /\ address_lookup_table_addresses = None
    /\ programs = <<>>
    /\ signers = <<>>
    /\ accounts = <<>>
    /\ removed_by_lookup = 0
    /\ number_of_address_lookups = 0
    /\ instruction_sizes = 0
    /\ \/ entry \in SolendMarketEntries /\ data \in SolendMarketBuffers
       \/ entry \in MetadataEntries /\ data \in MetadataBuffers
       \/ entry \in KaminoEntries /\ data \in KaminoBuffers
       \/ entry \in FetchEntries /\ data \in KaminoBuffers
       \/ entry \in TrimEntries /\ data \in TrimInputs
    /\ data_borrowed_mut \in (IF entry \in AccountInfoEntries THEN BOOLEAN ELSE {FALSE})
    /\ strategy = "none"
    /\ diagnostics = <<>>
    /\ decoded_from = <<>>
    /\ placeholders = {}
    /\ attempted = <<>>
    /\ program_id \in (IF entry \in FetchEntries THEN ProgramIdArgs ELSE {None})
    /\ get_account_ok \in (IF entry \in FetchEntries THEN BOOLEAN ELSE {TRUE})
    /\ account_owner \in (IF entry \in FetchEntries THEN Owners ELSE {PROGRAM_ID})
    /\ u16_n = 0
    /\ compressed_size = 0

(* A return after the replacement attempts were made in the caller's       *)
(* buffer instead of a copy.                                               *)
Return_InPlace(name, o) ==
    /\ pc = "start"
    /\ entry = name
    /\ result' = o.result
    /\ strategy' = o.strategy
    /\ diagnostics' = o.diagnostics
    /\ decoded_from' = o.decoded_from
    /\ placeholders' = o.placeholders
    /\ attempted' = o.attempts
    /\ pc' = "done"
    /\ data' = (IF o.strategy = "fix_enum_tag" THEN o.decoded_from ELSE data)
    /\ UNCHANGED <<entry, data_borrowed_mut, sizeVars, fetchVars, compressVars, pdaVars>>

Return(name, o) ==
    /\ pc = "start"
    /\ entry = name
    /\ result' = o.result
    /\ strategy' = o.strategy
    /\ diagnostics' = o.diagnostics
    /\ decoded_from' = o.decoded_from
    /\ placeholders' = o.placeholders
    /\ attempted' = o.attempts
    /\ pc' = "done"
    /\ UNCHANGED <<entry, data, data_borrowed_mut, sizeVars, fetchVars, compressVars, pdaVars>>

SolendMarketFromBytes ==
    Return("LendingMarket::from_bytes", LendingMarket_from_bytes(data))

SolendMarketTryFixEnumTagError ==
    Return("LendingMarket::try_fix_enum_tag_error", try_fix_enum_tag_error(data))

SolendMarketFromAccountInfo ==
    Return("LendingMarket::from_account_info",
           LendingMarket_from_account_info(data, data_borrowed_mut))

ParseLendingMarket ==
    Return("parse_lending_market", parse_lending_market(data, data_borrowed_mut))

MetadataFromBytes ==
    Return("LendingMarketMetadata::from_bytes", LendingMarketMetadata_from_bytes(data))

MetadataTryManualDeserialize ==
    Return("LendingMarketMetadata::try_manual_deserialize", try_manual_deserialize(data))

MetadataFromAccountInfo ==
    Return("LendingMarketMetadata::from_account_info",
           LendingMarketMetadata_from_account_info(data, data_borrowed_mut))

ParseLendingMarketMetadata ==
    Return("parse_lending_market_metadata",
           parse_lending_market_metadata(data, data_borrowed_mut))

KaminoFromBytes ==
    Return("kamino::LendingMarket::from_bytes", KaminoLendingMarket_from_bytes(data))

KaminoFetch ==
    Return("kamino::LendingMarket::fetch",
           KaminoLendingMarket_fetch(program_id, get_account_ok, account_owner, data))

TrimString == Return("trim_string", trim_string(data))

NextDecode ==
    \/ SolendMarketFromBytes
    \/ SolendMarketTryFixEnumTagError
    \/ SolendMarketFromAccountInfo
    \/ ParseLendingMarket
    \/ MetadataFromBytes
    \/ MetadataTryManualDeserialize
    \/ MetadataFromAccountInfo
    \/ ParseLendingMarketMetadata
    \/ KaminoFromBytes
    \/ KaminoFetch
    \/ TrimString

SpecDecode == InitDecode /\ [][NextDecode]_vars

-----------------------------------------------------------------------------
(* Properties of the decoders, stated of the outcome of the one call.      *)

FromBytesEntries ==
    {"LendingMarket::from_bytes", "LendingMarketMetadata::from_bytes",
     "kamino::LendingMarket::from_bytes"}

DecodeEntryPoints ==
    {"LendingMarket::from_bytes", "LendingMarket::from_account_info", "parse_lending_market",
     "LendingMarketMetadata::from_bytes", "LendingMarketMetadata::from_account_info",
     "parse_lending_market_metadata", "kamino::LendingMarket::from_bytes"}

(* The schema and the expected size of the type an entry point decodes.    *)
SchemaOf(e) ==
    IF e \in SolendMarketEntries THEN SolendMarketSchema
    ELSE IF e \in MetadataEntries THEN MetadataSchema
    ELSE KaminoMarketSchema

ExpectedSizeOf(e) ==
    IF e \in SolendMarketEntries THEN SOLEND_LENDING_MARKET_SIZE
    ELSE IF e \in MetadataEntries THEN LENDING_MARKET_METADATA_SIZE
    ELSE KAMINO_LENDING_MARKET_SIZE

(* C2: LendingMarket::from_bytes and LendingMarketMetadata::from_bytes     *)
(* return a failure for every buffer shorter than the expected size (290   *)
(* and 111 bytes).                                                         *)
C2_ShortBufferFails ==
    ( /\ Done
      /\ entry \in {"LendingMarket::from_bytes", "LendingMarketMetadata::from_bytes"}
      /\ Len(data) < ExpectedSizeOf(entry) )
        => result.tag = "Err"

(* C3: no decoding entry point returns a success whose record has a field  *)
(* filled with a default or placeholder value instead of a decoded one.    *)
C3_SuccessCarriesNoPlaceholder ==
    (Done /\ entry \in DecodeEntryPoints /\ result.tag = "Ok") => placeholders = {}

(* C4: every record returned as a success was decoded from the caller's    *)
(* bytes or from a prefix of them, never from a copy with a byte replaced. *)
C4_DecodedFromUnalteredBytes ==
    (Done /\ entry \in DecodeEntryPoints /\ result.tag = "Ok")
        => IsPrefixOf(decoded_from, data)

(* C9: for a buffer longer than the expected size whose first              *)
(* expected-size bytes decode, from_bytes succeeds through the truncated   *)
(* strategy with the record decoded from that prefix.                      *)
C9_LongBufferTakesTruncatedPath ==
    ( /\ Done
      /\ entry \in FromBytesEntries
      /\ Len(data) > ExpectedSizeOf(entry)
      /\ BincodeDeserialize(SchemaOf(entry), Take(data, ExpectedSizeOf(entry))).ok )
        => /\ result.tag = "Ok"
           /\ strategy = "truncated"
           /\ result.val =
                  BincodeDeserialize(SchemaOf(entry), Take(data, ExpectedSizeOf(entry))).val

C11_DecodersNeverPanic ==
    (Done /\ entry \in SolendMarketEntries \cup MetadataEntries \cup KaminoEntries)
        => result.tag \in {"Ok", "Err"}

(* C12: kamino LendingMarket::from_bytes returns InvalidProgramData for    *)
(* every buffer shorter than LENDING_MARKET_SIZE, whatever its content,    *)
(* and no decode strategy has run on it.                                   *)
C12_KaminoShortBufferIsInvalidProgramData ==
    ( /\ Done
      /\ entry = "kamino::LendingMarket::from_bytes"
      /\ Len(data) < KAMINO_LENDING_MARKET_SIZE )
        => /\ result = Err("InvalidProgramData")
           /\ attempted = <<>>
           /\ strategy = "none"
           /\ diagnostics = <<>>

(* A short buffer that bincode would decode is rejected.                   *)
C12_Witness ==
    /\ Done
    /\ entry = "kamino::LendingMarket::from_bytes"
    /\ Len(data) < KAMINO_LENDING_MARKET_SIZE
    /\ BincodeDeserialize(KaminoMarketSchema, data).ok
    /\ result = Err("InvalidProgramData")

(* The program id fetch compares the owner with.                           *)
ExpectedProgramId == IF program_id.some THEN program_id.value ELSE PROGRAM_ID

(* C13: in kamino LendingMarket::fetch, when the owner of the fetched      *)
(* account differs from the expected program id, the result is             *)
(* InvalidProgramData and no decode strategy has run on the account data.  *)
C13_OwnerMismatchIsInvalidProgramData ==
    ( /\ Done
      /\ entry = "kamino::LendingMarket::fetch"
      /\ get_account_ok
      /\ account_owner # ExpectedProgramId )
        => /\ result = Err("InvalidProgramData")
           /\ attempted = <<>>
           /\ strategy = "none"

(* An account of another owner whose data from_bytes would decode.         *)
C13_Witness ==
    /\ Done
    /\ entry = "kamino::LendingMarket::fetch"
    /\ get_account_ok
    /\ account_owner # ExpectedProgramId
    /\ program_id.some
    /\ KaminoLendingMarket_from_bytes(data).result.tag = "Ok"
    /\ result = Err("InvalidProgramData")

(* What one strategy of kamino from_bytes reads from the buffer.           *)
KaminoStrategy(name, d) ==
    CASE name = "strict" -> BincodeDeserialize(KaminoMarketSchema, d)
      [] name = "relaxed" ->
             BincodeConfigDeserialize(KaminoMarketSchema, d, KAMINO_LENDING_MARKET_SIZE)
      [] name = "truncated" ->
             BincodeDeserialize(KaminoMarketSchema, Take(d, KAMINO_LENDING_MARKET_SIZE))

KaminoStrategyOrder(d) ==
    <<"strict", "relaxed">>
        \o (IF Len(d) > KAMINO_LENDING_MARKET_SIZE THEN <<"truncated">> ELSE <<>>)

(* C14: on a buffer of at least the expected size, kamino from_bytes runs  *)
(* strict, relaxed, truncated in that order (truncated only on a longer    *)
(* buffer), each only after the earlier ones failed, returns the record of *)
(* the first that succeeds, and returns FailedToParse exactly when all     *)
(* that apply have failed.                                                 *)
C14_StrategiesInOrderFirstSuccessWins ==
    ( /\ Done
      /\ entry = "kamino::LendingMarket::from_bytes"
      /\ Len(data) >= KAMINO_LENDING_MARKET_SIZE )
        => /\ attempted # <<>>
           /\ IsPrefixOf(attempted, KaminoStrategyOrder(data))
           /\ \A i \in 1..(Len(attempted) - 1) : ~KaminoStrategy(attempted[i], data).ok
           /\ IF KaminoStrategy(attempted[Len(attempted)], data).ok
              THEN /\ result = Ok(KaminoStrategy(attempted[Len(attempted)], data).val)
                   /\ strategy = attempted[Len(attempted)]
              ELSE /\ attempted = KaminoStrategyOrder(data)
                   /\ result = Err("FailedToParse")

(* A longer buffer on which the three strategies ran and failed.           *)
C14_Witness ==
    /\ Done
    /\ entry = "kamino::LendingMarket::from_bytes"
    /\ Len(data) > KAMINO_LENDING_MARKET_SIZE
    /\ attempted = <<"strict", "relaxed", "truncated">>
    /\ result = Err("FailedToParse")

(* The records of the type an entry point decodes.                         *)
RecordsOf(e) ==
    IF e \in SolendMarketEntries THEN SolendMarketRecords
    ELSE IF e \in MetadataEntries THEN MetadataRecords
    ELSE KaminoRecords

(* C15: on a buffer of exactly the expected size that holds the encoding   *)
(* of a record (followed by padding when the encoding is shorter),         *)
(* from_bytes succeeds and returns that record, field by field.            *)
C15_EncodedRecordRoundTrips ==
    ( /\ Done
      /\ entry \in FromBytesEntries
      /\ Len(data) = ExpectedSizeOf(entry) )
        => \A r \in RecordsOf(entry) :
               IsPrefixOf(BincodeSerialize(SchemaOf(entry), r), data) => result = Ok(r)

(* A buffer that is exactly the encoding of a record with non-empty        *)
(* strings has been decoded to it.                                         *)
C15_Witness ==
    /\ Done
    /\ entry \in FromBytesEntries
    /\ Len(data) = ExpectedSizeOf(entry)
    /\ \E r \in RecordsOf(entry) :
          /\ data = BincodeSerialize(SchemaOf(entry), r)
          /\ result = Ok(r)

(* C28: decoding never modifies the caller's bytes: over a call of         *)
(* from_bytes, try_fix_enum_tag_error or try_manual_deserialize, whether   *)
(* it succeeds or fails, the buffer stays what it was.                     *)
C28_BufferUnmodified ==
    [][(entry \in FromBytesEntries \cup {"LendingMarket::try_fix_enum_tag_error",
                                         "LendingMarketMetadata::try_manual_deserialize"})
           => (data' = data)]_vars

(* A record returned from a copy in which a byte was replaced.             *)
C28_Witness ==
    /\ Done
    /\ entry \in {"LendingMarket::from_bytes", "LendingMarket::try_fix_enum_tag_error"}
    /\ result.tag = "Ok"
    /\ strategy = "fix_enum_tag"
    /\ decoded_from # data
    /\ Positions206(data) # {}

(* The bytes from the first non-zero byte up to the next zero byte or the  *)
(* end; empty when there is no non-zero byte.                              *)
TrimmedOf(a) ==
    LET nonzero == {i \in 1..Len(a) : a[i] # 0}
        first == CHOOSE i \in nonzero : \A j \in nonzero : i <= j
        zeros == {i \in first..Len(a) : a[i] = 0}
        last == IF zeros = {} THEN Len(a)
                ELSE (CHOOSE i \in zeros : \A j \in zeros : i <= j) - 1
    IN  IF nonzero = {} THEN <<>> ELSE SubSeq(a, first, last)

(* C29, as stated: trim_string returns exactly the bytes from the first    *)
(* non-zero byte up to, not including, the next zero byte (or the end),    *)
(* the empty string for an empty or all-zero input, and never indexes out  *)
(* of range.                                                               *)
C29_TrimReturnsTheBytes ==
    (Done /\ entry = "trim_string") => result = Ok(TrimmedOf(data))

(* C29, amended: it returns those bytes when they are valid UTF-8 and      *)
(* FailedToParse when they are not; it never indexes out of range.         *)
C29_TrimReturnsTheBytesIfUtf8 ==
    (Done /\ entry = "trim_string")
        => result = (IF Utf8Valid(TrimmedOf(data)) THEN Ok(TrimmedOf(data))
                     ELSE Err("FailedToParse"))

(* Leading zeros skipped and the text cut at the next zero.                *)
C29_Witness ==
    /\ Done
    /\ entry = "trim_string"
    /\ data = <<0, 65, 0>>
    /\ result = Ok(<<65>>)

-----------------------------------------------------------------------------
(* Further properties of the size estimator.                               *)

(* The identifiers of the instructions that are programs or signers.       *)
ProgramsAndSigners == Range(programs) \cup Range(signers)

(* C16: with a lookup table supplied, every program and every signer of    *)
(* the instructions is in the inline account array, also when the table    *)
(* holds it; an account missing from the array is in the table and is      *)
(* neither a program nor a signer.                                         *)
C16_ProgramsAndSignersStayInline ==
    (Done /\ entry = "get_size_of_transaction" /\ address_lookup_table_addresses.some)
        => /\ ProgramsAndSigners \subseteq Range(accounts)
           /\ \A a \in Range(CollectAccounts(instructions)) \ Range(accounts) :
                 /\ a \in Range(address_lookup_table_addresses.value)
                 /\ a \notin ProgramsAndSigners

(* A call that returned a size with a program and a signer in the table.   *)
C16_Witness ==
    /\ Done
    /\ entry = "get_size_of_transaction"
    /\ address_lookup_table_addresses.some
    /\ result.tag = "Ok"
    /\ Range(programs) \cap Range(address_lookup_table_addresses.value) # {}
    /\ Range(signers) \cap Range(address_lookup_table_addresses.value) # {}
    /\ removed_by_lookup > 0

(* The instruction list in every order.                                    *)
Reorderings(ixs) ==
    {[i \in 1..Len(ixs) |-> ixs[f[i]]] : f \in Permutations(1..Len(ixs))}

(* C17: get_size_of_transaction is order-independent: in one build, the    *)
(* call on any reordering of the instruction list, with the same versioned *)
(* flag and lookup table, has the same outcome.                            *)
C17_OrderIndependent ==
    (Done /\ entry = "get_size_of_transaction")
        => \A overflow_checks \in BOOLEAN : \A p \in Reorderings(instructions) :
               SizeRun(p, versioned_transaction, address_lookup_table_addresses,
                       overflow_checks).result
               = SizeRun(instructions, versioned_transaction,
                         address_lookup_table_addresses, overflow_checks).result

(* Some account of the instructions is in the lookup table and is neither  *)
(* a program nor a signer: it is addressed through the table.              *)
ResolvedThroughLookup ==
    /\ address_lookup_table_addresses.some
    /\ \E a \in Range(CollectAccounts(instructions)) :
          /\ a \in Range(address_lookup_table_addresses.value)
          /\ a \notin ProgramsAndSigners

(* What the returned size holds beyond the message, the version bytes and  *)
(* the lookup indexes.                                                     *)
LookupTableBytes ==
    result.val
    - TotalExact(Len(signers), Len(accounts), Len(instructions), instruction_sizes,
                 versioned_transaction, 0)
    - number_of_address_lookups

(* C18: with no lookup table the versioned estimate is the non-versioned   *)
(* one plus 2; and the 32 + 2 bytes of the lookup table address and index  *)
(* count are added exactly when the transaction is versioned and at least  *)
(* one account is resolved through the lookup table.                       *)
C18_VersionedAndLookupTableBytes ==
    (Done /\ entry = "get_size_of_transaction" /\ result.tag = "Ok")
        => /\ ~address_lookup_table_addresses.some =>
                 \A overflow_checks \in BOOLEAN :
                     LET plain == SizeRun(instructions, FALSE, None, overflow_checks).result
                         versioned == SizeRun(instructions, TRUE, None, overflow_checks).result
                     IN  plain.tag = "Ok" => versioned = Ok(plain.val + 2)
           /\ LookupTableBytes
                 = (IF versioned_transaction /\ ResolvedThroughLookup THEN 34 ELSE 0)

(* C19: with an empty instruction list, versioned = false and no lookup    *)
(* table, get_size_of_transaction returns exactly 38.                      *)
C19_EmptyTransactionIs38 ==
    ( /\ Done
      /\ entry = "get_size_of_transaction"
      /\ instructions = <<>>
      /\ ~versioned_transaction
      /\ ~address_lookup_table_addresses.some )
        => result = Ok(38)

C19_Witness ==
    /\ Done
    /\ entry = "get_size_of_transaction"
    /\ instructions = <<>>
    /\ ~versioned_transaction
    /\ address_lookup_table_addresses = None
    /\ signers = <<>>
    /\ accounts = <<>>
    /\ result = Ok(38)

(* The call of the two unit tests: not versioned, no lookup table, one     *)
(* instruction with no accounts and no data.                               *)
OneEmptyInstruction ==
    /\ entry = "get_size_of_transaction"
    /\ ~versioned_transaction
    /\ ~address_lookup_table_addresses.some
    /\ Len(instructions) = 1
    /\ instructions[1].accounts = <<>>
    /\ instructions[1].data_len = 0

C26_EmptyLookupTableIsNone ==
    ( /\ Done
      /\ entry = "get_size_of_transaction"
      /\ address_lookup_table_addresses = Some(<<>>) )
        => \A overflow_checks \in BOOLEAN :
               SizeRun(instructions, versioned_transaction, Some(<<>>), overflow_checks).result
               = SizeRun(instructions, versioned_transaction, None, overflow_checks).result

-----------------------------------------------------------------------------
(* Specification of get_size_of_compressed_u16: one call on any u16.       *)

InitCompress ==
    /\ pc = "start"
    /\ PdaAtRest
    /\ result = NoResult
    /\ instructions = <<>>
    /\ versioned_transaction = FALSE
    /\ address_lookup_table_addresses = None
    /\ programs = <<>>
    /\ signers = <<>>
    /\ accounts = <<>>
    /\ removed_by_lookup = 0
    /\ number_of_address_lookups = 0
    /\ instruction_sizes = 0
    /\ entry = "get_size_of_compressed_u16"
    /\ data = <<>>
    /\ data_borrowed_mut = FALSE
    /\ strategy = "none"
    /\ diagnostics = <<>>
    /\ decoded_from = <<>>
    /\ placeholders = {}
    /\ attempted = <<>>
    /\ program_id = None
    /\ get_account_ok = TRUE
    /\ account_owner = PROGRAM_ID
    /\ u16_n \in 0..U16_MAX
    /\ compressed_size = 0

GetSizeOfCompressedU16 ==
    /\ pc = "start"
    /\ entry = "get_size_of_compressed_u16"
    /\ compressed_size' = get_size_of_compressed_u16(u16_n)
    /\ pc' = "done"
    /\ UNCHANGED <<result, u16_n, sizeVars, decodeVars, fetchVars, pdaVars>>

NextCompress == GetSizeOfCompressedU16

SpecCompress == InitCompress /\ [][NextCompress]_vars

(* C20: get_size_of_compressed_u16(n) is 1 for n < 128, 2 for              *)
(* 128 <= n < 16384 and 3 for 16384 <= n <= 65535.                         *)
C20_CompressedU16Width ==
    (Done /\ entry = "get_size_of_compressed_u16")
        => compressed_size = (IF u16_n < 128 THEN 1 ELSE IF u16_n < 16384 THEN 2 ELSE 3)

(* The call on the first value that takes three bytes.                     *)
C20_Witness ==
    /\ Done
    /\ entry = "get_size_of_compressed_u16"
    /\ u16_n = 16384
    /\ compressed_size = 3

-----------------------------------------------------------------------------
(* kamino-sdk utils/obligation_type.rs: obligation kinds and the address   *)
(* derived for an obligation. A Pubkey is a small number, 0 for            *)
(* Pubkey::default(); to_bytes gives its 32 bytes.                         *)

PubkeyDefault == 0

PubkeyToBytes(k) == Fill(PubkeyBytes, k)

(* Lines 61-64, 73-76, 87-90, 101-104: id, or 0 for None.                  *)
IdOrZero(id) == IF id.some THEN id.value ELSE 0

(* Lines 60-70.                                                            *)
new_vanilla(pid, id) ==
    [variant |-> "VanillaObligation", tag |-> 0, id |-> IdOrZero(id), program_id |-> pid]

(* Lines 72-84.                                                            *)
new_multiply(m1, m2, pid, id) ==
    [variant |-> "MultiplyObligation", tag |-> 1, id |-> IdOrZero(id), program_id |-> pid,
     coll_token |-> m1, debt_token |-> m2]

(* Lines 86-98.                                                            *)
new_leverage(m1, m2, pid, id) ==
    [variant |-> "LeverageObligation", tag |-> 2, id |-> IdOrZero(id), program_id |-> pid,
     coll_token |-> m1, debt_token |-> m2]

(* Lines 100-111.                                                          *)
new_lending(token, pid, id) ==
    [variant |-> "LendingObligation", tag |-> 3, id |-> IdOrZero(id), program_id |-> pid,
     token |-> token]

(* Lines 44-58.                                                            *)
get_obligation_by_type(tag, m1, m2) ==
    CASE tag = 0 -> Ok(new_vanilla(PubkeyDefault, None))
      [] tag = 1 -> Ok(new_multiply(m1, m2, PubkeyDefault, None))
      [] tag = 2 -> Ok(new_lending(m1, PubkeyDefault, None))
      [] tag = 3 -> Ok(new_leverage(m1, m2, PubkeyDefault, None))
      [] OTHER -> Err("InvalidObligationType")

(* Lines 113-120.                                                          *)
get_program_id(self) == self.program_id

(* Lines 127-134.                                                          *)
to_args(self) ==
    CASE self.variant = "VanillaObligation" ->
            [tag |-> self.tag, id |-> self.id, seed1 |-> PubkeyDefault, seed2 |-> PubkeyDefault]
      [] self.variant = "MultiplyObligation" ->
            [tag |-> self.tag, id |-> self.id, seed1 |-> self.coll_token, seed2 |-> self.debt_token]
      [] self.variant = "LeverageObligation" ->
            [tag |-> self.tag, id |-> self.id, seed1 |-> self.coll_token, seed2 |-> self.debt_token]
      [] self.variant = "LendingObligation" ->
            [tag |-> self.tag, id |-> self.id, seed1 |-> self.token, seed2 |-> self.token]

(* The seeds with the market before the user.                              *)
PdaSeed_MarketFirst(m, u, a) == << <<a.tag>>, <<a.id>>, PubkeyToBytes(m), PubkeyToBytes(u), PubkeyToBytes(a.seed1), PubkeyToBytes(a.seed2) >>

(* Lines 143-150: the local seed.                                          *)
PdaSeed(m, u, a) ==
    << <<a.tag>>, <<a.id>>, PubkeyToBytes(u), PubkeyToBytes(m),
       PubkeyToBytes(a.seed1), PubkeyToBytes(a.seed2) >>

(* Pubkey::find_program_address, called at line 151. The address is the    *)
(* digest of the seeds, the bump and the program id, kept here as the      *)
(* hashed input itself, so two addresses are equal only if their inputs    *)
(* are. The bump is the first of 255, 254, ... whose digest is not a point *)
(* of the curve; that test is an arbitrary but fixed predicate of the      *)
(* hashed input.                                                           *)
SeedMarks(seeds) == [i \in 1..Len(seeds) |-> Len(seeds[i]) + seeds[i][1]]

MaxBump == 255

OffCurve(seeds, b, pid) == (SumSeq(SeedMarks(seeds)) + b + pid) % 2 = 1

RECURSIVE FindBump(_, _, _)
FindBump(seeds, pid, b) ==
    IF b < 0 THEN -1
    ELSE IF OffCurve(seeds, b, pid) THEN b
    ELSE FindBump(seeds, pid, b - 1)

Digest(seeds, b, pid) == [seeds |-> seeds \o << <<b>> >>, program_id |-> pid]

FoundAddress(seeds, pid, b) == [pda |-> Digest(seeds, b, pid), bump |-> b]

find_program_address(seeds, pid) == FoundAddress(seeds, pid, FindBump(seeds, pid, MaxBump))

(* Lines 151-152: the value returned is a Pubkey, the address alone.       *)
PdaReturn(found) == IF found.bump < 0 THEN Panic ELSE Ok([address |-> found.pda])

(* Lines 137-153.                                                          *)
get_obligation_pda_with_args(m, u, a, pid) ==
    PdaReturn(find_program_address(PdaSeed(m, u, a), pid))

(* Lines 122-125.                                                          *)
to_pda(self, m, u) == get_obligation_pda_with_args(m, u, to_args(self), get_program_id(self))

-----------------------------------------------------------------------------
(* Calls of the obligation functions.                                      *)

Pubkeys == {0, 1, 2}

ObligationTags == 0..4

ObligationIds == {None, Some(5)}

ObligationProgramIds == {PubkeyDefault, 9}

Obligations ==
    {new_vanilla(pid, id) : pid \in ObligationProgramIds, id \in ObligationIds}
    \cup {new_multiply(m1, m2, pid, id) :
              m1 \in Pubkeys, m2 \in Pubkeys, pid \in ObligationProgramIds, id \in ObligationIds}
    \cup {new_leverage(m1, m2, pid, id) :
              m1 \in Pubkeys, m2 \in Pubkeys, pid \in ObligationProgramIds, id \in ObligationIds}
    \cup {new_lending(t, pid, id) :
              t \in Pubkeys, pid \in ObligationProgramIds, id \in ObligationIds}

ArgsModels == [tag : 0..3, id : {0, 5}, seed1 : Pubkeys, seed2 : Pubkeys]

PdaEntries == {"ObligationType::to_pda", "get_obligation_pda_with_args"}

ObligationEntries == {"ObligationType::get_obligation_by_type"} \cup PdaEntries

InitPda ==
    /\ pc = "start"
    /\ result = NoResult
    /\ instructions = <<>>
    /\ versioned_transaction = FALSE
    /\ address_lookup_table_addresses = None
    /\ programs = <<>>
    /\ signers = <<>>
    /\ accounts = <<>>
    /\ removed_by_lookup = 0
    /\ number_of_address_lookups = 0
    /\ instruction_sizes = 0
    /\ data = <<>>
    /\ data_borrowed_mut = FALSE
    /\ strategy = "none"
    /\ diagnostics = <<>>
    /\ decoded_from = <<>>
    /\ placeholders = {}
    /\ attempted = <<>>
    /\ program_id = None
    /\ get_account_ok = TRUE
    /\ account_owner = PROGRAM_ID
    /\ u16_n = 0
    /\ compressed_size = 0
    /\ seed = <<>>
    /\ bump = 0
    /\ entry \in ObligationEntries
    /\ \/ /\ entry = "ObligationType::get_obligation_by_type"
          /\ obligation_tag \in ObligationTags
          /\ mint_address_1 \in Pubkeys
          /\ mint_address_2 \in Pubkeys
          /\ obligation = NoObligation
          /\ market = 0
          /\ user = 0
          /\ args = NoArgs
          /\ derive_program_id = 0
       \/ /\ entry = "ObligationType::to_pda"
          /\ obligation \in Obligations
          /\ market \in Pubkeys
          /\ user \in Pubkeys
          /\ obligation_tag = 0
          /\ mint_address_1 = 0
          /\ mint_address_2 = 0
          /\ args = NoArgs
          /\ derive_program_id = 0
       \/ /\ entry = "get_obligation_pda_with_args"
          /\ args \in ArgsModels
          /\ derive_program_id \in ObligationProgramIds
          /\ market \in Pubkeys
          /\ user \in Pubkeys
          /\ obligation = NoObligation
          /\ obligation_tag = 0
          /\ mint_address_1 = 0
          /\ mint_address_2 = 0

GetObligationByType ==
    /\ pc = "start"
    /\ entry = "ObligationType::get_obligation_by_type"
    /\ result' = get_obligation_by_type(obligation_tag, mint_address_1, mint_address_2)
    /\ pc' = "done"
    /\ UNCHANGED <<sizeVars, decodeVars, fetchVars, compressVars, pdaVars>>

(* The derivation of lines 143-152 with the arguments it is called with.   *)
Derive(m, u, a, pid) ==
    /\ args' = a
    /\ derive_program_id' = pid
    /\ seed' = PdaSeed(m, u, a)
    /\ bump' = find_program_address(PdaSeed(m, u, a), pid).bump
    /\ result' = get_obligation_pda_with_args(m, u, a, pid)
    /\ pc' = "done"
    /\ UNCHANGED <<sizeVars, decodeVars, fetchVars, compressVars, obligation_tag,
                   mint_address_1, mint_address_2, obligation, market, user>>

ToPda ==
    /\ pc = "start"
    /\ entry = "ObligationType::to_pda"
    /\ Derive(market, user, to_args(obligation), get_program_id(obligation))

GetObligationPdaWithArgs ==
    /\ pc = "start"
    /\ entry = "get_obligation_pda_with_args"
    /\ Derive(market, user, args, derive_program_id)

NextPda ==
    \/ GetObligationByType
    \/ ToPda
    \/ GetObligationPdaWithArgs

SpecPda == InitPda /\ [][NextPda]_vars

(* C23: the derivation of an obligation address returns to its caller both *)
(* the derived address and the bump that was used.                         *)
C23_ReturnsAddressAndBump ==
    (Done /\ entry \in PdaEntries)
        => /\ result.tag = "Ok"
           /\ DOMAIN result.val = {"address", "bump"}
           /\ result.val.address = Digest(seed, bump, derive_program_id)
           /\ result.val.bump = bump

(* C25: for each tag of 0..3, get_obligation_by_type returns an obligation *)
(* whose stored tag, the one to_args puts into the seeds, is the requested *)
(* tag.                                                                    *)
C25_StoredTagIsRequestedTag ==
    (Done /\ entry = "ObligationType::get_obligation_by_type" /\ obligation_tag \in 0..3)
        => /\ result.tag = "Ok"
           /\ to_args(result.val).tag = obligation_tag

(* The seeds the claim names for an obligation, by variant.                *)
SeedPair(o) ==
    IF o.variant = "VanillaObligation" THEN <<PubkeyDefault, PubkeyDefault>>
    ELSE IF o.variant = "LendingObligation" THEN <<o.token, o.token>>
    ELSE <<o.coll_token, o.debt_token>>

(* C27: for every obligation variant, to_pda gives the derivation exactly  *)
(* six seeds in the order [tag], [id], user, market, seed1, seed2, with    *)
(* (seed1, seed2) = (default, default) for Vanilla, (coll_token,           *)
(* debt_token) for Multiply and Leverage, (token, token) for Lending.      *)
C27_SixSeedsInFixedOrder ==
    (Done /\ entry = "ObligationType::to_pda")
        => seed = << <<obligation.tag>>, <<obligation.id>>,
                     PubkeyToBytes(user), PubkeyToBytes(market),
                     PubkeyToBytes(SeedPair(obligation)[1]),
                     PubkeyToBytes(SeedPair(obligation)[2]) >>

(* A multiply obligation whose user, market and two tokens all differ.     *)
C27_Witness ==
    /\ Done
    /\ entry = "ObligationType::to_pda"
    /\ obligation.variant = "MultiplyObligation"
    /\ user = 1
    /\ market = 2
    /\ obligation.coll_token = 2
    /\ obligation.debt_token = 1
    /\ Len(seed) = 6
    /\ seed[3] = PubkeyToBytes(1)
    /\ seed[4] = PubkeyToBytes(2)
    /\ seed[5] = PubkeyToBytes(2)
    /\ seed[6] = PubkeyToBytes(1)

====
